---- MODULE Spec2Model ----
(***************************************************************************)
(* Model of the thermal_toy plant: the single-zone thermal update, the     *)
(* battery projection and the grid netting of dynamics.py, the state       *)
(* carry of ThermalPlantEnv, and the device actuators of devices/.         *)
(*                                                                         *)
(* Python floats are modelled as exact rationals <<numerator, denominator>>*)
(* in lowest terms with a positive denominator.  An Optional value is a    *)
(* sequence of length 0 (None) or 1.                                       *)
(***************************************************************************)
EXTENDS Integers, Sequences, FiniteSets, TLC

\* ------------------------------------------------------------------------
\* float arithmetic, as exact rationals
\* ------------------------------------------------------------------------
Abs(x) == IF x < 0 THEN -x ELSE x

RECURSIVE GCD(_, _)
GCD(a, b) == IF b = 0 THEN a ELSE GCD(b, a % b)

Rat(n, d) ==
    LET s == IF d < 0 THEN -1 ELSE 1
        g == GCD(Abs(n), Abs(d))
    IN  <<(s * n) \div g, (s * d) \div g>>

I(n) == <<n, 1>>
Zero == I(0)
One == I(1)

RAdd(a, b) == Rat(a[1] * b[2] + b[1] * a[2], a[2] * b[2])
RNeg(a) == <<-a[1], a[2]>>
RSub(a, b) == RAdd(a, RNeg(b))
RMul(a, b) == Rat(a[1] * b[1], a[2] * b[2])
RDiv(a, b) == Rat(a[1] * b[2], a[2] * b[1])

Floor(a) == a[1] \div a[2]
\* a < b, comparing the integer parts first so that a large constant such as
\* the default import cap never multiplies a denominator
RLt(a, b) ==
    LET fa == Floor(a)
        fb == Floor(b)
    IN  IF fa # fb THEN fa < fb
        ELSE (a[1] - fa * a[2]) * b[2] < (b[1] - fb * b[2]) * a[2]
RLe(a, b) == ~RLt(b, a)
RGt(a, b) == RLt(b, a)
RGe(a, b) == ~RLt(a, b)
RMax(a, b) == IF RLt(a, b) THEN b ELSE a
RMin(a, b) == IF RLt(b, a) THEN b ELSE a

\* np.clip(x, lo, hi) = minimum(maximum(x, lo), hi)
np_clip(x, lo, hi) == RMin(RMax(x, lo), hi)

None == <<>>
Some(x) == <<x>>

\* ------------------------------------------------------------------------
\* dynamics.py
\* ------------------------------------------------------------------------
\* ElectricLimits() defaults
gmax_kw_default == 1000000000
ElectricLimits == [gmax_kw |-> I(gmax_kw_default), allow_export |-> TRUE]

\* denomE = max(bat.e_kwh, 1e-9)
eps_capacity == <<1, 1000000000>>

\* clip to [0, max]
power_clip_floor_only(p_kw, p_max_kw) == RMax(p_kw, Zero)

power_clip(p_kw, p_max_kw) == np_clip(p_kw, Zero, p_max_kw)

exclusive_both(p_ch, p_dis) == <<p_ch, p_dis>>

exclusive_tie_dis(p_ch, p_dis) ==
    IF RGt(p_ch, Zero) /\ RGt(p_dis, Zero)
    THEN IF RGt(p_ch, p_dis) THEN <<p_ch, Zero>> ELSE <<Zero, p_dis>>
    ELSE <<p_ch, p_dis>>

\* exclusivity: keep only the larger side this step
exclusive(p_ch, p_dis) ==
    IF RGt(p_ch, Zero) /\ RGt(p_dis, Zero)
    THEN IF RGe(p_ch, p_dis) THEN <<p_ch, Zero>> ELSE <<Zero, p_dis>>
    ELSE <<p_ch, p_dis>>

\* soc_prev + (eta_ch * p_ch * dt) / denomE - (p_dis * dt) / (eta_dis * denomE)
soc_update(soc_prev, p_ch, p_dis, dt, bat, denomE) ==
    RSub(RAdd(soc_prev, RDiv(RMul(RMul(bat.eta_ch, p_ch), dt), denomE)),
         RDiv(RMul(p_dis, dt), RMul(bat.eta_dis, denomE)))

scale_ratio(x, denom) ==
    IF RLe(denom, Zero) THEN Zero ELSE RMax(Zero, RDiv(x, denom))

\* s = 0.0 if denom <= 0 else max(0.0, 1.0 - x / denom)
scale(x, denom) ==
    IF RLe(denom, Zero) THEN Zero ELSE RMax(Zero, RSub(One, RDiv(x, denom)))

soc_clamp_none(soc, bat) == soc

\* soc_next = clip(soc_next, soc_min, soc_max)
soc_clamp(soc, bat) == np_clip(soc, bat.soc_min, bat.soc_max)

\* the projection's result: return p_ch, p_dis, soc_next (clipped into bounds)
project_result(p_ch, p_dis, soc_next, bat) ==
    [p_ch |-> p_ch, p_dis |-> p_dis, soc_next |-> soc_clamp(soc_next, bat)]

\* p_dis *= s, then soc_next recomputed
discharge_scaled(p_ch, p_dis, soc_prev, dt, bat, denomE) ==
    project_result(p_ch, p_dis,
                   soc_update(soc_prev, p_ch, p_dis, dt, bat, denomE), bat)

project_lower_drop(p_ch, p_dis, soc_prev, soc_next, dt, bat, denomE) ==
    IF RLt(soc_next, bat.soc_min) /\ RGt(p_dis, Zero)
    THEN discharge_scaled(p_ch, Zero, soc_prev, dt, bat, denomE)
    ELSE project_result(p_ch, p_dis, soc_next, bat)

\* if soc_next < soc_min and p_dis > 0: scale p_dis down
project_lower(p_ch, p_dis, soc_prev, soc_next, dt, bat, denomE) ==
    IF RLt(soc_next, bat.soc_min) /\ RGt(p_dis, Zero)
    THEN discharge_scaled(p_ch,
            RMul(p_dis, scale(RSub(bat.soc_min, soc_next),
                              RDiv(RMul(p_dis, dt), RMul(bat.eta_dis, denomE)))),
            soc_prev, dt, bat, denomE)
    ELSE project_result(p_ch, p_dis, soc_next, bat)

\* p_ch *= s, then soc_next recomputed
charge_scaled(p_ch, p_dis, soc_prev, dt, bat, denomE) ==
    project_lower(p_ch, p_dis, soc_prev,
                  soc_update(soc_prev, p_ch, p_dis, dt, bat, denomE), dt, bat, denomE)

\* if soc_next > soc_max and p_ch > 0: scale p_ch down
project_upper(p_ch, p_dis, soc_prev, soc_next, dt, bat, denomE) ==
    IF RGt(soc_next, bat.soc_max) /\ RGt(p_ch, Zero)
    THEN charge_scaled(
            RMul(p_ch, scale(RSub(soc_next, bat.soc_max),
                             RDiv(RMul(RMul(bat.eta_ch, p_ch), dt), denomE))),
            p_dis, soc_prev, dt, bat, denomE)
    ELSE project_lower(p_ch, p_dis, soc_prev, soc_next, dt, bat, denomE)

\* raw update of the charge fraction from the exclusive powers
project_raw(ex, soc_prev, dt, bat, denomE) ==
    project_upper(ex[1], ex[2], soc_prev,
                  soc_update(soc_prev, ex[1], ex[2], dt, bat, denomE), dt, bat, denomE)

_battery_project(p_ch_kw, p_dis_kw, soc, th, bat) ==
    project_raw(exclusive(power_clip(p_ch_kw, bat.p_ch_max_kw),
                          power_clip(p_dis_kw, bat.p_dis_max_kw)),
                np_clip(soc, Zero, One), th.dt_h, bat, RMax(bat.e_kwh, eps_capacity))

q_loss_reversed(U, Tout_c, Tin_c) == RMul(U, RSub(Tin_c, Tout_c))

\* q_loss_kw = U * (Tout - Tin), negative if T_in > T_out
q_loss(U, Tout_c, Tin_c) == RMul(U, RSub(Tout_c, Tin_c))

temp_clip_none(T, th) == T

\* clip(Tin + dT, clip_temp_c[0], clip_temp_c[1])
temp_clip(T, th) == np_clip(T, th.clip_temp_c[1], th.clip_temp_c[2])

_thermal_step(Tin_c, Tout_c, q_heat_kw, th) ==
    LET q_loss_kw == q_loss(th.U_kw_per_degC, Tout_c, Tin_c)
        dT == RMul(RDiv(th.dt_h, th.C_th_kwh_per_degC), RAdd(q_loss_kw, q_heat_kw))
    IN  [T_next_c |-> temp_clip(RAdd(Tin_c, dT), th), q_loss_kw |-> q_loss_kw,
         q_heat_kw |-> q_heat_kw, dT |-> dT]

pv_clamp_floor_only(pv_kw, pv_potential_kw) == RMax(Zero, pv_kw)

\* pv_used_kw = max(0, min(ports.pv_used_kw, exog.pv_potential_kw))
pv_clamp(pv_kw, pv_potential_kw) == RMax(Zero, RMin(pv_kw, pv_potential_kw))

net_demand_no_battery(base_kw, elec_load_kw, p_ch_proj, pv_used_kw, p_dis_proj) ==
    RSub(RAdd(base_kw, elec_load_kw), pv_used_kw)

\* net_kw = base + load + p_ch_proj - pv_used - p_dis_proj
net_demand(base_kw, elec_load_kw, p_ch_proj, pv_used_kw, p_dis_proj) ==
    RSub(RSub(RAdd(RAdd(base_kw, elec_load_kw), p_ch_proj), pv_used_kw), p_dis_proj)

grid_export_magnitude(net_kw, allow_export) ==
    IF allow_export THEN RMax(net_kw, RNeg(net_kw)) ELSE Zero

grid_export_always(net_kw, allow_export) == RMax(Zero, RNeg(net_kw))

\* g_export_kw: max(0, -net) when export is allowed, else 0
grid_export(net_kw, allow_export) ==
    IF allow_export THEN RMax(Zero, RNeg(net_kw)) ELSE Zero

import_cap_none(g_import_kw, gmax_kw) == g_import_kw

\* grid import cap (simple clip)
import_cap(g_import_kw, gmax_kw) == RMin(g_import_kw, gmax_kw)

\* the diagnostics record and the next plant state
step_result(therm, b, base_kw, load_kw, pv_kw, net_kw, g_import_kw, g_export_kw, dt) ==
    [next_state |-> [Tin_c |-> therm.T_next_c, soc |-> b.soc_next],
     info |-> [Tin_next_c |-> therm.T_next_c,
               q_heat_kw |-> therm.q_heat_kw,
               q_loss_kw |-> therm.q_loss_kw,
               dT |-> therm.dT,
               p_batt_ch_kw |-> b.p_ch,
               p_batt_dis_kw |-> b.p_dis,
               base_load_kw |-> base_kw,
               elec_load_kw |-> load_kw,
               pv_used_kw |-> pv_kw,
               net_kw |-> net_kw,
               g_import_kw |-> g_import_kw,
               g_export_kw |-> g_export_kw,
               g_import_kwh |-> RMul(g_import_kw, dt),
               g_export_kwh |-> RMul(g_export_kw, dt),
               elec_energy_kwh |-> RMul(load_kw, dt),
               p_batt_ch_kw_proj |-> b.p_ch,
               p_batt_dis_kw_proj |-> b.p_dis,
               soc_next |-> b.soc_next]]

\* grid import/export from the net demand
grid_flows(therm, b, base_kw, elec_load_kw, pv_used_kw, net_kw, limits, dt) ==
    step_result(therm, b, base_kw, elec_load_kw, pv_used_kw, net_kw,
                import_cap(RMax(Zero, net_kw), limits.gmax_kw),
                grid_export(net_kw, limits.allow_export), dt)

\* electric balance on the AC bus
electric_balance(therm, b, base_kw, elec_load_kw, pv_used_kw, limits, dt) ==
    grid_flows(therm, b, base_kw, elec_load_kw, pv_used_kw,
               net_demand(base_kw, elec_load_kw, b.p_ch, pv_used_kw, b.p_dis),
               limits, dt)

\* the projection's outputs with the charge fraction as the state's optional field
projected(proj) ==
    [p_ch |-> proj.p_ch, p_dis |-> proj.p_dis, soc_next |-> Some(proj.soc_next)]

battery_update_raw(state, ports, th, bat) ==
    IF bat # None /\ RGt(bat[1].e_kwh, Zero) /\ state.soc # None
    THEN projected(_battery_project(ports.p_batt_ch_kw, ports.p_batt_dis_kw,
                                    state.soc[1], th, bat[1]))
    ELSE [p_ch |-> RMax(Zero, ports.p_batt_ch_kw), p_dis |-> RMax(Zero, ports.p_batt_dis_kw),
          soc_next |-> state.soc]

\* battery update (if present), else zero powers and the charge fraction as it was
battery_update(state, ports, th, bat) ==
    IF bat # None /\ RGt(bat[1].e_kwh, Zero) /\ state.soc # None
    THEN projected(_battery_project(ports.p_batt_ch_kw, ports.p_batt_dis_kw,
                                    state.soc[1], th, bat[1]))
    ELSE [p_ch |-> Zero, p_dis |-> Zero, soc_next |-> state.soc]

\* limits = limits or ElectricLimits()
limits_or_default(limits_opt) ==
    IF limits_opt = None THEN ElectricLimits ELSE limits_opt[1]

plant_step_multi(state, exog, ports, th, bat, limits_opt) ==
    electric_balance(
        _thermal_step(state.Tin_c, exog.Tout_c, ports.q_heat_kw, th),
        battery_update(state, ports, th, bat),
        RMax(Zero, exog.base_load_kw),
        RMax(Zero, ports.elec_load_kw),
        pv_clamp(ports.pv_used_kw, exog.pv_potential_kw),
        limits_or_default(limits_opt),
        th.dt_h)

\* the float divisions of a step whose divisor is 0.0: dt_h / C_th in _thermal_step,
\* and (p_dis * dt) / (eta_dis * denomE) in _battery_project when the battery
\* branch is taken (denomE = max(e_kwh, 1e-9) is never 0)
zero_divisor(state, th, bat) ==
    \/ th.C_th_kwh_per_degC = Zero
    \/ /\ bat # None /\ RGt(bat[1].e_kwh, Zero) /\ state.soc # None
       /\ RMul(bat[1].eta_dis, RMax(bat[1].e_kwh, eps_capacity)) = Zero

\* plant_step_multi as a call: a float division by 0.0 raises ZeroDivisionError,
\* which nothing in the function catches
plant_step_multi_call(state, exog, ports, th, bat, limits_opt) ==
    IF zero_divisor(state, th, bat)
    THEN [error |-> "ZeroDivisionError", out |-> None]
    ELSE [error |-> "none",
          out |-> Some(plant_step_multi(state, exog, ports, th, bat, limits_opt))]

\* ------------------------------------------------------------------------
\* devices/
\* ------------------------------------------------------------------------
\* base.Clamp.__call__: max(lo, min(hi, x))
Clamp(lo, hi, x) == RMax(lo, RMin(hi, x))

\* outcome of a call: an exception, or the returned contributions
Raise(e) == [error |-> e, out |-> None]
Return(o) == [error |-> "none", out |-> Some(o)]

\* mutual exclusivity preference of the split encoding
keep_larger(a_ch, a_dis) ==
    IF RGt(a_ch, a_dis) THEN <<a_ch, Zero>> ELSE <<Zero, a_dis>>

\* an action is a sequence: one value (a float) or two (a tuple)
BatteryActuator_forward(dev, action) ==
    IF dev.map_split
    THEN LET pair == IF Len(action) = 2 THEN action ELSE <<action[1], Zero>>
             kept == keep_larger(Clamp(Zero, One, pair[1]), Clamp(Zero, One, pair[2]))
         IN  Return([p_batt_ch_kw |-> RMul(kept[1], dev.p_ch_max_kw),
                     p_batt_dis_kw |-> RMul(kept[2], dev.p_dis_max_kw)])
    ELSE IF Len(action) # 1 THEN Raise("TypeError")
    ELSE LET u == Clamp(I(-1), One, action[1])
         IN  IF RGe(u, Zero)
             THEN Return([p_batt_ch_kw |-> RMul(u, dev.p_ch_max_kw),
                          p_batt_dis_kw |-> Zero])
             ELSE Return([p_batt_ch_kw |-> Zero,
                          p_batt_dis_kw |-> RMul(RNeg(u), dev.p_dis_max_kw)])

\* abs(x) of a float
RAbs(x) == IF RLt(x, Zero) THEN RNeg(x) ELSE x

\* ResistiveHeater.forward after a = self._clip(action)
resistive_out(dev, a, dt_h) ==
    [q_heat_kw |-> RMul(dev.eff, RMul(dev.pmax_kw, a)),
     elec_load_kw |-> RMul(dev.pmax_kw, a),
     elec_energy_kwh |-> RMul(RMul(dev.pmax_kw, a), dt_h),
     mode |-> IF RGt(a, Zero) THEN "heat" ELSE "idle"]

ResistiveHeater_forward_unclamped(dev, action, dt_h) ==
    Return(resistive_out(dev, action, dt_h))

ResistiveHeater_forward(dev, action, dt_h) ==
    Return(resistive_out(dev, Clamp(Zero, One, action), dt_h))

\* bisect.bisect_left(xs, v): the number of leading points with x < v
RECURSIVE bisect_left(_, _)
bisect_left(pairs, v) ==
    IF pairs = <<>> \/ RGe(pairs[1][1], v) THEN 0 ELSE 1 + bisect_left(Tail(pairs), v)

\* linear interpolation between the points i and i + 1 of a sorted table
interp_between(p0, p1, v) ==
    RAdd(p0[2], RMul(IF p1[1] # p0[1]
                     THEN RDiv(RSub(v, p0[1]), RSub(p1[1], p0[1]))
                     ELSE Zero,
                     RSub(p1[2], p0[2])))

\* the function f returned by _interp1d, over the sorted pairs, held at its ends
interp_at(pairs, i, v) ==
    IF i <= 0 THEN pairs[1][2]
    ELSE IF i >= Len(pairs) THEN pairs[Len(pairs)][2]
    ELSE interp_between(pairs[i], pairs[i + 1], v)

_interp1d(pairs, v) == interp_at(pairs, bisect_left(pairs, v), v)

_cop_affine_unclamped(dev, t_out_c) ==
    IF dev.cop_fn # None
    THEN RMax(<<1, 10>>, _interp1d(dev.cop_fn[1], t_out_c))
    ELSE RAdd(dev.cop_ref, RMul(dev.cop_slope_per_degC, RSub(t_out_c, dev.t_ref_c)))

\* BiDirectionalHeatPump._cop; an injected cop_fn is a table read by _interp1d
_cop(dev, t_out_c) ==
    IF dev.cop_fn # None
    THEN RMax(<<1, 10>>, _interp1d(dev.cop_fn[1], t_out_c))
    ELSE RMin(dev.cop_max,
              RMax(dev.cop_min,
                   RAdd(dev.cop_ref,
                        RMul(dev.cop_slope_per_degC, RSub(t_out_c, dev.t_ref_c)))))

\* u = clip_uni(action) mapped to [-1, 1] if accept_unsigned_action else clip_bi(action)
hp_u(dev, action) ==
    IF dev.accept_unsigned_action
    THEN RSub(RMul(I(2), Clamp(Zero, One, action)), One)
    ELSE Clamp(I(-1), One, action)

heat_sign_always_heat(u) == One

\* (1.0 if u >= 0 else -1.0)
heat_sign(u) == IF RGe(u, Zero) THEN One ELSE I(-1)

\* BiDirectionalHeatPump.forward once t_out_c is known to be given
hp_out(dev, u, cop, dt_h) ==
    [q_heat_kw |-> RMul(RMul(heat_sign(u), cop), RMul(dev.pmax_kw, RAbs(u))),
     elec_load_kw |-> RMul(dev.pmax_kw, RAbs(u)),
     elec_energy_kwh |-> RMul(RMul(dev.pmax_kw, RAbs(u)), dt_h),
     mode |-> IF RGt(u, Zero) THEN "heat" ELSE IF RLt(u, Zero) THEN "cool" ELSE "idle",
     cop |-> cop]

BiDirectionalHeatPump_forward_default_t(dev, action, dt_h, t_out_c) ==
    IF t_out_c = None
    THEN Return(hp_out(dev, hp_u(dev, action), _cop(dev, dev.t_ref_c), dt_h))
    ELSE Return(hp_out(dev, hp_u(dev, action), _cop(dev, t_out_c[1]), dt_h))

BiDirectionalHeatPump_forward(dev, action, dt_h, t_out_c) ==
    IF t_out_c = None
    THEN Raise("ValueError")
    ELSE Return(hp_out(dev, hp_u(dev, action), _cop(dev, t_out_c[1]), dt_h))

PVInverter_forward_no_floor(action, pv_potential_kw) ==
    Return([pv_used_kw |->
              RMul(Clamp(Zero, One, action),
                   IF pv_potential_kw = None THEN Zero ELSE pv_potential_kw[1])])

\* PVInverter.forward: an absent pv_potential_kw is 0.0; max(0.0, a * pv_potential_kw)
PVInverter_forward(action, pv_potential_kw) ==
    Return([pv_used_kw |->
              RMax(Zero, RMul(Clamp(Zero, One, action),
                              IF pv_potential_kw = None THEN Zero ELSE pv_potential_kw[1]))])

\* devices/__init__.py: the registry and the factories
REGISTRY == { "resistive", "bidir_hp", "battery", "pv" }

\* str.lower() on the kind strings of the configurations
lower(kind) ==
    CASE kind = "Resistive" -> "resistive"
      [] kind = "BIDIR_HP" -> "bidir_hp"
      [] kind = "Battery" -> "battery"
      [] kind = "PV" -> "pv"
      [] OTHER -> kind

\* make_device(kind, **kwargs): cls(**kwargs), the instance carrying its class as `kind`
make_device(spec) ==
    IF lower(spec.kind) \notin REGISTRY
    THEN Raise("ValueError")
    ELSE Return([spec EXCEPT !.kind = lower(spec.kind)])

\* the registered entries of a list, built in order
made_known(specs) ==
    [ i \in DOMAIN SelectSeq(specs, LAMBDA sp : make_device(sp).error = "none") |->
        make_device(SelectSeq(specs, LAMBDA sp : make_device(sp).error = "none")[i]).out[1] ]

make_devices_skip_unknown(specs) == Return(made_known(specs))

\* [make_device(s["kind"], ...) for s in specs]: the first failing entry raises
make_devices(specs) ==
    IF \E i \in DOMAIN specs : make_device(specs[i]).error # "none"
    THEN Raise("ValueError")
    ELSE Return([ i \in DOMAIN specs |-> make_device(specs[i]).out[1] ])

\* the branch of _build_action_space taken for a device: (lo, hi) of its slice
device_bounds(dev) ==
    IF dev.kind = "battery" /\ dev.map_split
    THEN << <<Zero, Zero>>, <<One, One>> >>
    ELSE IF dev.kind = "bidir_hp" /\ ~dev.accept_unsigned_action
    THEN << <<I(-1)>>, <<One>> >>
    ELSE << <<Zero>>, <<One>> >>

\* one turn of the loop of _build_action_space
add_device(acc, dev) ==
    [slices |-> Append(acc.slices, <<acc.cursor, acc.cursor + Len(device_bounds(dev)[1])>>),
     lows |-> acc.lows \o device_bounds(dev)[1],
     highs |-> acc.highs \o device_bounds(dev)[2],
     cursor |-> acc.cursor + Len(device_bounds(dev)[1])]

RECURSIVE action_space_loop(_, _)
action_space_loop(acc, devices) ==
    IF devices = <<>> THEN acc
    ELSE action_space_loop(add_device(acc, Head(devices)), Tail(devices))

\* ThermalPlantEnv._build_action_space: slices (start, end), 0-based and half-open
_build_action_space(devices) ==
    action_space_loop([slices |-> <<>>, lows |-> <<>>, highs |-> <<>>, cursor |-> 0], devices)

\* ------------------------------------------------------------------------
\* scenario configurations and per-step inputs
\* ------------------------------------------------------------------------
MaxSteps == 2

Thermals ==
    { [dt_h |-> I(1), C_th_kwh_per_degC |-> I(2), U_kw_per_degC |-> <<1, 2>>,
       clip_temp_c |-> <<I(-10), I(40)>>],
      [dt_h |-> <<1, 4>>, C_th_kwh_per_degC |-> <<1, 2>>, U_kw_per_degC |-> I(2),
       clip_temp_c |-> <<I(15), I(25)>>] }

Battery(e, pc, pd, ec, ed, lo, hi) ==
    [e_kwh |-> e, p_ch_max_kw |-> pc, p_dis_max_kw |-> pd,
     eta_ch |-> ec, eta_dis |-> ed, soc_min |-> lo, soc_max |-> hi]

\* (battery_params, init_soc) of EnvConfig
BatteryConfigs ==
    { <<None, None>>,
      <<Some(Battery(Zero, I(3), I(3), <<19, 20>>, <<19, 20>>, <<1, 10>>, <<9, 10>>)), None>>,
      <<Some(Battery(I(5), I(3), I(3), <<19, 20>>, <<19, 20>>, <<1, 10>>, <<9, 10>>)), None>>,
      <<Some(Battery(I(4), I(2), I(4), <<9, 10>>, <<4, 5>>, <<1, 5>>, <<4, 5>>)),
        Some(<<19, 20>>)>> }

LimitsConfigs ==
    { None,
      Some([gmax_kw |-> I(2), allow_export |-> FALSE]),
      Some([gmax_kw |-> I(-1), allow_export |-> TRUE]) }

T_in0_c == I(19)

Ports(q, l, c, d, p) ==
    [q_heat_kw |-> q, elec_load_kw |-> l, p_batt_ch_kw |-> c,
     p_batt_dis_kw |-> d, pv_used_kw |-> p]
Exogenous(t, b, p) == [Tout_c |-> t, base_load_kw |-> b, pv_potential_kw |-> p]

\* thermal inputs on an otherwise all-zero bus
ThermalInputs ==
    { [exog |-> Exogenous(I(t), Zero, Zero), ports |-> Ports(I(q), Zero, Zero, Zero, Zero)] :
        t \in {-20, 10}, q \in {-60, 0, 6} }

BatteryIntents ==
    { <<I(0), I(0)>>, <<I(2), I(0)>>, <<I(0), I(2)>>, <<I(2), I(2)>>,
      <<I(4), I(1)>>, <<I(1), I(4)>>, <<I(-1), I(5)>>, <<I(5), I(4)>> }
Loads == { <<I(-1), I(-1)>>, <<I(0), I(0)>>, <<I(3), I(1)>> }
PvPairs == { <<I(0), I(0)>>, <<I(2), I(3)>>, <<I(5), I(3)>>, <<I(-1), I(3)>>, <<I(2), I(-1)>> }

\* electrical inputs at a mild ambient temperature
ElectricalInput(b, l, p) ==
    [exog |-> Exogenous(I(10), l[2], p[2]), ports |-> Ports(Zero, l[1], b[1], b[2], p[1])]
ElectricalInputs ==
    { ElectricalInput(b, l, <<I(2), I(3)>>) : b \in BatteryIntents, l \in Loads }
    \cup { ElectricalInput(b, l, p) :
            b \in { <<I(0), I(0)>>, <<I(2), I(0)>> }, l \in Loads, p \in PvPairs }

StepInputs == ThermalInputs \cup ElectricalInputs

\* ------------------------------------------------------------------------
\* ThermalPlantEnv: the plant state carried from step to step
\* ------------------------------------------------------------------------
VARIABLES th, bat, init_soc, limits, k, state, last, dcall, mcall, seen, ep, eng
vars == <<th, bat, init_soc, limits, k, state, last, dcall, mcall, seen, ep, eng>>
plant_vars == <<th, bat, init_soc, limits, k, state, last>>

\* env.py __init__/reset: SOC is initialised whenever battery_params is given
reset_soc(b, s0) ==
    IF b # None THEN Some(IF s0 # None THEN s0[1] ELSE <<1, 2>>) ELSE None

Init ==
    /\ th \in Thermals
    /\ \E c \in BatteryConfigs : bat = c[1] /\ init_soc = c[2]
    /\ limits \in LimitsConfigs
    /\ k = 0
    /\ state = [Tin_c |-> T_in0_c, soc |-> reset_soc(bat, init_soc)]
    /\ last = None
    /\ dcall = None
    /\ mcall = None
    /\ seen = [plant |-> None, device |-> None]
    /\ ep = None
    /\ eng = None

\* PlantState(...): a new instance on the heap of PlantState objects, and its reference
PlantState(heap, fields) == [heap |-> Append(heap, fields), ref |-> Len(heap) + 1]

returned_state_in_place(heap, fields) ==
    [heap |-> [heap EXCEPT ![Len(heap)] = fields], ref |-> Len(heap)]

\* next_state = PlantState(Tin_c=Tin_next, soc=soc_next); no field of `state` is assigned
returned_state(heap, fields) == PlantState(heap, fields)

\* the objects of one call: env.step builds the input instance, the plant step returns one
call_objects(st, nxt) == returned_state(PlantState(<<>>, st).heap, nxt)

\* arguments and results of one plant_step_multi call; `state` holds the input's
\* fields at the call, `heap` the PlantState instances after it
call_record(st, exog, ports, r) ==
    [state |-> st, exog |-> exog, ports |-> ports,
     next_state |-> r.next_state, info |-> r.info,
     state_ref |-> 1, next_ref |-> call_objects(st, r.next_state).ref,
     heap |-> call_objects(st, r.next_state).heap]

\* ThermalPlantEnv.step from the assembled bus onwards
Step ==
    /\ k < MaxSteps
    /\ \E in \in StepInputs :
        last' = Some(call_record(state, in.exog, in.ports,
                        plant_step_multi(state, in.exog, in.ports, th, bat, limits)))
    /\ state' = last'[1].next_state
    /\ k' = k + 1
    /\ UNCHANGED <<th, bat, init_soc, limits, dcall, mcall, seen, ep, eng>>

Reset ==
    /\ k > 0
    /\ k' = 0
    /\ state' = [Tin_c |-> T_in0_c, soc |-> reset_soc(bat, init_soc)]
    /\ last' = None
    /\ UNCHANGED <<th, bat, init_soc, limits, dcall, mcall, seen, ep, eng>>

Next == Step \/ Reset

Spec == Init /\ [][Next]_vars

\* the plant steps made so far (at most the last one is remembered)
Calls == { last[i] : i \in DOMAIN last }

\* ------------------------------------------------------------------------
\* device calls on their own: forward() of a device built from a configuration
\* ------------------------------------------------------------------------
BatteryDevices ==
    { [kind |-> "battery", p_ch_max_kw |-> I(c), p_dis_max_kw |-> I(d), map_split |-> m] :
        c \in {3}, d \in {2, 3}, m \in BOOLEAN }

ResistiveDevices ==
    { [kind |-> "resistive", pmax_kw |-> I(p), eff |-> e] :
        p \in {3, 2}, e \in {One, <<9, 10>>} }

\* an injected efficiency lookup: _interp1d([-10, 10], [0, 6])
CopTable == << <<I(-10), Zero>>, <<I(10), I(6)>> >>

HeatPumpDevices ==
    { [kind |-> "bidir_hp", pmax_kw |-> I(2), cop_fn |-> f, cop_ref |-> I(3),
       t_ref_c |-> I(7), cop_slope_per_degC |-> sl, cop_min |-> <<3, 2>>,
       cop_max |-> <<11, 2>>, accept_unsigned_action |-> un] :
        f \in {None, Some(CopTable)}, sl \in {<<1, 20>>, <<1, 5>>}, un \in BOOLEAN }

DtValues == { One, <<1, 4>> }
AmbientValues == { None, Some(I(7)), Some(I(-30)), Some(I(30)) }

ActionValues == { <<-1, 2>>, <<0, 1>>, <<3, 10>>, <<1, 2>>, <<3, 5>>, <<4, 5>>, <<1, 1>>, <<3, 2>>, <<-3, 5>>, <<-1, 1>>, <<-2, 1>> }
ScalarActions == { <<a>> : a \in ActionValues }
PairActions == { <<a, b>> : a, b \in ActionValues }

InitDevices ==
    /\ th \in { t \in Thermals : t.dt_h = One }
    /\ bat = None
    /\ init_soc = None
    /\ limits = None
    /\ k = 0
    /\ state = [Tin_c |-> T_in0_c, soc |-> None]
    /\ last = None
    /\ dcall = None
    /\ mcall = None
    /\ seen = [plant |-> None, device |-> None]
    /\ ep = None
    /\ eng = None

BatteryForward ==
    /\ \E dev \in BatteryDevices, action \in ScalarActions \cup PairActions :
        dcall' = Some([dev |-> dev, action |-> action, dt_h |-> th.dt_h,
                       t_out_c |-> None,
                       result |-> BatteryActuator_forward(dev, action)])
    /\ UNCHANGED <<plant_vars, mcall, seen, ep, eng>>

ResistiveForward ==
    /\ \E dev \in ResistiveDevices, action \in ScalarActions, dt \in DtValues :
        dcall' = Some([dev |-> dev, action |-> action, dt_h |-> dt,
                       t_out_c |-> None,
                       result |-> ResistiveHeater_forward(dev, action[1], dt)])
    /\ UNCHANGED <<plant_vars, mcall, seen, ep, eng>>

HeatPumpForward ==
    /\ \E dev \in HeatPumpDevices, action \in ScalarActions, dt \in DtValues,
          t \in AmbientValues :
        dcall' = Some([dev |-> dev, action |-> action, dt_h |-> dt,
                       t_out_c |-> t,
                       result |-> BiDirectionalHeatPump_forward(dev, action[1], dt, t)])
    /\ UNCHANGED <<plant_vars, mcall, seen, ep, eng>>

PvAvailable == { None, Some(I(3)), Some(Zero), Some(I(-1)) }

PvForward ==
    /\ \E action \in ScalarActions, pv \in PvAvailable :
        dcall' = Some([dev |-> [kind |-> "pv"], action |-> action, dt_h |-> th.dt_h,
                       t_out_c |-> None, pv_potential_kw |-> pv,
                       result |-> PVInverter_forward(action[1], pv)])
    /\ UNCHANGED <<plant_vars, mcall, seen, ep, eng>>

NextDevices == BatteryForward \/ ResistiveForward \/ HeatPumpForward \/ PvForward

SpecDevices == InitDevices /\ [][NextDevices]_vars

\* ------------------------------------------------------------------------
\* construction of the devices and of the action space: ThermalPlantEnv.__init__
\* ------------------------------------------------------------------------
MaxDevices == 2

\* entries of a `devices` configuration list
DeviceSpecs ==
    { [kind |-> "resistive", pmax_kw |-> I(3), eff |-> One],
      [kind |-> "PV"],
      [kind |-> "pv"],
      [kind |-> "boiler"],
      [kind |-> "heat_pump", pmax_kw |-> I(2)] }
    \cup { [kind |-> kd, p_ch_max_kw |-> I(3), p_dis_max_kw |-> I(3), map_split |-> m] :
             kd \in {"battery", "Battery"}, m \in BOOLEAN }
    \cup { [kind |-> "bidir_hp", pmax_kw |-> I(2), cop_fn |-> None, cop_ref |-> I(3),
            t_ref_c |-> I(7), cop_slope_per_degC |-> <<1, 20>>, cop_min |-> <<3, 2>>,
            cop_max |-> <<11, 2>>, accept_unsigned_action |-> un] : un \in BOOLEAN }

SpecLists == UNION { [1..n -> DeviceSpecs] : n \in 0..MaxDevices }

\* self.devices = make_devices(env_cfg.devices); then _build_action_space(self.devices)
env_devices(specs) ==
    [specs |-> specs, made |-> make_devices(specs),
     space |-> IF make_devices(specs).error = "none"
               THEN Some(_build_action_space(make_devices(specs).out[1]))
               ELSE None]

MakeEnv ==
    /\ \E specs \in SpecLists : mcall' = Some(env_devices(specs))
    /\ UNCHANGED <<plant_vars, dcall, seen, ep, eng>>

NextFactory == MakeEnv

SpecFactory == InitDevices /\ [][NextFactory]_vars

FactoryCalls == { mcall[i] : i \in DOMAIN mcall }

\* ------------------------------------------------------------------------
\* episodes of ThermalPlantEnv over a scenario of T steps; `ep` holds the
\* horizon, the use_next_exogenous flag and what the last reset or step returned
\* ------------------------------------------------------------------------
MaxHorizon == 3

\* scenario.t_out_c: a series of T values, read at 0-based indices
t_out(T) == [ i \in 1..T |-> I(10 - 5 * i) ]
in_series(series, i) == 0 <= i /\ i < Len(series)
series_at(series, i) == series[i + 1]

env_truncated_early(k_next, T) == k_next >= T - 1

\* truncated = self._k >= self.T, after self._k += 1
env_truncated(k_next, T) == k_next >= T

\* obs_index = min(k, T - 1) if use_next else max(k - 1, 0), after self._k += 1
obs_index(k_next, T, use_next) ==
    IF use_next THEN (IF k_next < T - 1 THEN k_next ELSE T - 1)
    ELSE (IF k_next - 1 > 0 THEN k_next - 1 ELSE 0)

\* obs, r, terminated, truncated, info of a step
step_return(k_read, k_next) ==
    [op |-> "step", error |-> "none", t |-> k_read,
     truncated |-> env_truncated(k_next, ep.T), terminated |-> FALSE,
     obs_index |-> obs_index(k_next, ep.T, ep.use_next)]

InitEpisode ==
    /\ th \in Thermals
    /\ bat = None
    /\ init_soc = None
    /\ limits = None
    /\ k = 0
    /\ state = [Tin_c |-> T_in0_c, soc |-> reset_soc(bat, init_soc)]
    /\ last = None
    /\ dcall = None
    /\ mcall = None
    /\ seen = [plant |-> None, device |-> None]
    /\ ep \in { [T |-> T, use_next |-> u, ret |-> None] : T \in 1..MaxHorizon, u \in BOOLEAN }
    /\ eng = None

\* ThermalPlantEnv.step: reading t_out[k] past the series raises IndexError
\* before anything is assigned; base load and PV potential are zero series
EnvStep ==
    /\ \E q \in { Zero, I(6) } :
         IF ~in_series(t_out(ep.T), k)
         THEN /\ ep' = [ep EXCEPT !.ret = Some([op |-> "step", error |-> "IndexError"])]
              /\ UNCHANGED <<k, state, last>>
         ELSE /\ last' = Some(call_record(state,
                              Exogenous(series_at(t_out(ep.T), k), Zero, Zero),
                              Ports(q, Zero, Zero, Zero, Zero),
                              plant_step_multi(state,
                                  Exogenous(series_at(t_out(ep.T), k), Zero, Zero),
                                  Ports(q, Zero, Zero, Zero, Zero), th, bat, limits)))
              /\ state' = last'[1].next_state
              /\ k' = k + 1
              /\ ep' = [ep EXCEPT !.ret = Some(step_return(k, k + 1))]
    /\ UNCHANGED <<th, bat, init_soc, limits, dcall, mcall, seen, eng>>

\* ThermalPlantEnv.reset
EnvReset ==
    /\ k' = 0
    /\ state' = [Tin_c |-> T_in0_c, soc |-> reset_soc(bat, init_soc)]
    /\ last' = None
    /\ ep' = [ep EXCEPT !.ret = Some([op |-> "reset", error |-> "none"])]
    /\ UNCHANGED <<th, bat, init_soc, limits, dcall, mcall, seen, eng>>

NextEpisode == EnvStep \/ EnvReset

SpecEpisode == InitEpisode /\ [][NextEpisode]_vars

\* ------------------------------------------------------------------------
\* engine/engine.py: Engine over a scenario of T steps; `eng` holds the
\* GameState fields, the horizon, and what the last reset or step returned
\* ------------------------------------------------------------------------
MaxEngineSteps == 4

\* scenario.price_eur_per_kwh: a series of T values
price_eur_per_kwh(T) == [ i \in 1..T |-> <<i, 10>> ]

\* configuration defaults: HVAC sizing and COPs, comfort setpoint and width, lambda
EngineConfig ==
    [q_heat_max_kw |-> I(3), q_cool_max_kw |-> I(3), cop_heat |-> I(3), cop_cool |-> I(3),
     T_set_c |-> I(21), comfort_width_c |-> I(2), lambda_temp_eur_per_degCh |-> I(2)]

eps_cop == <<1, 1000000>>

\* u = max(-1, min(1, action.hvac_u)); thermal and electrical power of the HVAC
engine_hvac(hvac_u) ==
    IF RGe(Clamp(I(-1), One, hvac_u), Zero)
    THEN [q_hvac_kw |-> RMul(Clamp(I(-1), One, hvac_u), EngineConfig.q_heat_max_kw),
          elec_power_kw |-> RDiv(RMul(Clamp(I(-1), One, hvac_u), EngineConfig.q_heat_max_kw),
                                 RMax(EngineConfig.cop_heat, eps_cop))]
    ELSE [q_hvac_kw |-> RMul(Clamp(I(-1), One, hvac_u), EngineConfig.q_cool_max_kw),
          elec_power_kw |-> RDiv(RNeg(RMul(Clamp(I(-1), One, hvac_u), EngineConfig.q_cool_max_kw)),
                                 RMax(EngineConfig.cop_cool, eps_cop))]

\* Tin_next = min(hi, max(lo, Tin + (dt / max(C, 1e-9)) * (U * (Tout - Tin) + q_hvac)))
engine_thermal(Tin_c, Tout_c, q_hvac_kw) ==
    RMin(th.clip_temp_c[2],
         RMax(th.clip_temp_c[1],
              RAdd(Tin_c, RMul(RDiv(th.dt_h, RMax(th.C_th_kwh_per_degC, eps_capacity)),
                               RAdd(RMul(th.U_kw_per_degC, RSub(Tout_c, Tin_c)), q_hvac_kw)))))

\* reward.comfort_slacks: s_below + s_above
comfort_slack(t_in_c) ==
    RAdd(RMax(Zero, RSub(RSub(EngineConfig.T_set_c,
                              RMul(<<1, 2>>, EngineConfig.comfort_width_c)), t_in_c)),
         RMax(Zero, RSub(t_in_c, RAdd(EngineConfig.T_set_c,
                                      RMul(<<1, 2>>, EngineConfig.comfort_width_c)))))

\* reward.step_reward: energy cost, comfort penalty
step_reward(t_in_c, price, elec_energy_kwh) ==
    [cost_eur_step |-> RMul(price, elec_energy_kwh),
     comfort_penalty_eur_step |->
        RMul(RMul(EngineConfig.lambda_temp_eur_per_degCh, comfort_slack(t_in_c)), th.dt_h)]

engine_next_k_unclamped(k_now, T) == k_now + 1

\* self._state.k = min(k + 1, T - 1)
engine_next_k(k_now, T) == IF k_now + 1 < T - 1 THEN k_now + 1 ELSE T - 1

\* the GameState after a step that read the series at eng.k
engine_update(Tin_next, rw) ==
    [eng EXCEPT !.Tin_c = Tin_next,
                !.k = engine_next_k(eng.k, eng.T),
                !.cum_energy_cost_eur = RAdd(@, rw.cost_eur_step),
                !.cum_comfort_penalty_eur = RAdd(@, rw.comfort_penalty_eur_step),
                !.cum_reward = RSub(@, RAdd(rw.cost_eur_step, rw.comfort_penalty_eur_step)),
                !.n = @ + 1]

\* the TickInfo of a step: _build_obs reads the series at the updated index
engine_tick(st, k_read) ==
    [st EXCEPT !.ret =
        Some(IF in_series(t_out(st.T), st.k)
             THEN [op |-> "step", error |-> "none", k_read |-> k_read, t |-> st.k,
                   truncated |-> (k_read >= st.T - 1), terminated |-> FALSE]
             ELSE [op |-> "step", error |-> "IndexError", k_read |-> k_read])]

engine_step(hvac_u, Tin_next) ==
    engine_tick(engine_update(Tin_next,
                    step_reward(Tin_next, series_at(price_eur_per_kwh(eng.T), eng.k),
                                RMul(engine_hvac(hvac_u).elec_power_kw, th.dt_h))),
                eng.k)

InitEngine ==
    /\ th \in { t \in Thermals : t.dt_h = One }
    /\ bat = None
    /\ init_soc = None
    /\ limits = None
    /\ k = 0
    /\ state = [Tin_c |-> T_in0_c, soc |-> None]
    /\ last = None
    /\ dcall = None
    /\ mcall = None
    /\ seen = [plant |-> None, device |-> None]
    /\ ep = None
    /\ eng \in { [T |-> T, k |-> 0, Tin_c |-> T_in0_c, cum_energy_cost_eur |-> Zero,
                  cum_comfort_penalty_eur |-> Zero, cum_reward |-> Zero,
                  n |-> 0, ret |-> None] : T \in 1..MaxHorizon }

\* Engine.step; at most MaxEngineSteps steps between resets
EngineStep ==
    /\ eng.n < MaxEngineSteps
    /\ \E hvac_u \in { I(-1), Zero, One, <<3, 2>> } :
         eng' = IF ~in_series(t_out(eng.T), eng.k)
                THEN [eng EXCEPT !.ret = Some([op |-> "step", error |-> "IndexError",
                                               k_read |-> eng.k])]
                ELSE engine_step(hvac_u,
                        engine_thermal(eng.Tin_c, series_at(t_out(eng.T), eng.k),
                                       engine_hvac(hvac_u).q_hvac_kw))
    /\ UNCHANGED <<plant_vars, dcall, mcall, seen, ep>>

\* Engine.reset
EngineReset ==
    /\ eng' = [eng EXCEPT !.k = 0, !.Tin_c = T_in0_c, !.cum_energy_cost_eur = Zero,
                          !.cum_comfort_penalty_eur = Zero, !.cum_reward = Zero, !.n = 0,
                          !.ret = Some([op |-> "reset", error |-> "none", t |-> 0,
                                        truncated |-> FALSE, terminated |-> FALSE])]
    /\ UNCHANGED <<plant_vars, dcall, mcall, seen, ep>>

NextEngine == EngineStep \/ EngineReset

SpecEngine == InitEngine /\ [][NextEngine]_vars

\* ------------------------------------------------------------------------
\* plant steps under degenerate parameters; `last` holds the call and its outcome
\* ------------------------------------------------------------------------
DegenerateThermals ==
    { [dt_h |-> I(1), C_th_kwh_per_degC |-> c, U_kw_per_degC |-> <<1, 2>>,
       clip_temp_c |-> <<I(-10), I(40)>>] : c \in {Zero, I(2)} }

DegenerateBatteries ==
    { None,
      Some(Battery(Zero, I(3), I(3), <<19, 20>>, <<19, 20>>, <<1, 10>>, <<9, 10>>)),
      Some(Battery(Zero, I(3), I(3), <<19, 20>>, Zero, <<1, 10>>, <<9, 10>>)),
      Some(Battery(I(5), I(3), I(3), <<19, 20>>, Zero, <<1, 10>>, <<9, 10>>)),
      Some(Battery(I(5), I(3), I(3), <<19, 20>>, <<19, 20>>, <<1, 10>>, <<9, 10>>)) }

InitDegenerate ==
    /\ th \in DegenerateThermals
    /\ bat \in DegenerateBatteries
    /\ init_soc = None
    /\ limits = None
    /\ k = 0
    /\ state = [Tin_c |-> T_in0_c, soc |-> reset_soc(bat, init_soc)]
    /\ last = None
    /\ dcall = None
    /\ mcall = None
    /\ seen = [plant |-> None, device |-> None]
    /\ ep = None
    /\ eng = None

\* one call of plant_step_multi on the reset state
DegenerateStep ==
    /\ \E in \in StepInputs :
         last' = Some([state |-> state, exog |-> in.exog, ports |-> in.ports,
                       result |-> plant_step_multi_call(state, in.exog, in.ports,
                                                        th, bat, limits)])
    /\ UNCHANGED <<th, bat, init_soc, limits, k, state, dcall, mcall, seen, ep, eng>>

NextDegenerate == DegenerateStep

SpecDegenerate == InitDegenerate /\ [][NextDegenerate]_vars

\* ------------------------------------------------------------------------
\* repeated calls of plant_step_multi and of a device's forward by one caller;
\* `seen` remembers an earlier call of each, `last` and `dcall` the latest
\* ------------------------------------------------------------------------
ReplayStates ==
    { [Tin_c |-> I(19), soc |-> Some(<<1, 2>>)],
      [Tin_c |-> I(21), soc |-> Some(<<22, 25>>)] }

ReplayInputs ==
    { [exog |-> Exogenous(I(10), I(1), I(3)), ports |-> Ports(I(q), I(1), b[1], b[2], I(2))] :
        q \in {0, 6}, b \in { <<I(2), I(0)>>, <<I(0), I(2)>> } }

ReplayDevices == { d \in BatteryDevices : d.p_dis_max_kw = I(3) }
ReplayActions == { <<(<<4, 5>>)>>, <<I(-2)>>, << <<3, 5>>, <<4, 5>> >> }

InitReplay ==
    /\ th \in Thermals
    /\ bat = Some(Battery(I(5), I(3), I(3), <<19, 20>>, <<19, 20>>, <<1, 10>>, <<9, 10>>))
    /\ init_soc = None
    /\ limits = None
    /\ k = 0
    /\ state = [Tin_c |-> T_in0_c, soc |-> reset_soc(bat, init_soc)]
    /\ last = None
    /\ dcall = None
    /\ mcall = None
    /\ seen = [plant |-> None, device |-> None]
    /\ ep = None
    /\ eng = None

plant_call_cached(st, in) ==
    call_record(st, in.exog, in.ports,
                plant_step_multi(IF last = None THEN st ELSE last[1].next_state,
                                 in.exog, in.ports, th, bat, limits))

\* next_state, info = plant_step_multi(state, exog, ports, th, bat=bat, limits=limits)
plant_call(st, in) ==
    call_record(st, in.exog, in.ports,
                plant_step_multi(st, in.exog, in.ports, th, bat, limits))

\* a call of plant_step_multi; the caller may keep the previous call's record
PlantCall ==
    /\ \E st \in ReplayStates, in \in ReplayInputs : last' = Some(plant_call(st, in))
    /\ \E keep \in BOOLEAN :
         seen' = IF keep \/ last = None THEN seen ELSE [seen EXCEPT !.plant = last]
    /\ UNCHANGED <<th, bat, init_soc, limits, k, state, dcall, mcall, ep, eng>>

\* a call of a battery actuator's forward; the caller may keep the previous call's record
DeviceCall ==
    /\ \E dev \in ReplayDevices, action \in ReplayActions :
         dcall' = Some([dev |-> dev, action |-> action, dt_h |-> th.dt_h,
                        t_out_c |-> None,
                        result |-> BatteryActuator_forward(dev, action)])
    /\ \E keep \in BOOLEAN :
         seen' = IF keep \/ dcall = None THEN seen ELSE [seen EXCEPT !.device = dcall]
    /\ UNCHANGED <<plant_vars, mcall, ep, eng>>

NextReplay == PlantCall \/ DeviceCall

SpecReplay == InitReplay /\ [][NextReplay]_vars

DeviceCalls == { dcall[i] : i \in DOMAIN dcall }

\* ------------------------------------------------------------------------
\* properties
\* ------------------------------------------------------------------------
\* the battery branch of plant_step_multi was taken in call c
Active(c) == bat # None /\ RGt(bat[1].e_kwh, Zero) /\ c.state.soc # None
InRange(x, lo, hi) == RLe(lo, x) /\ RLe(x, hi)
ZeroBus == Ports(Zero, Zero, Zero, Zero, Zero)
EffLimits == limits_or_default(limits)

\* C1: the projected charge power and the projected discharge power reported
\* by a plant step are never both strictly positive.
C1_NeverBothPositive ==
    \A c \in Calls :
        /\ ~(RGt(c.info.p_batt_ch_kw, Zero) /\ RGt(c.info.p_batt_dis_kw, Zero))
        /\ ~(RGt(c.info.p_batt_ch_kw_proj, Zero) /\ RGt(c.info.p_batt_dis_kw_proj, Zero))

\* a step of an active battery whose bus carried both a charge and a discharge intent
C1_Witness ==
    \E c \in Calls :
        /\ Active(c)
        /\ RGt(c.ports.p_batt_ch_kw, Zero) /\ RGt(c.ports.p_batt_dis_kw, Zero)
        /\ RGt(c.info.p_batt_ch_kw, Zero) \/ RGt(c.info.p_batt_dis_kw, Zero)

\* C2: with a battery of positive capacity and a present charge fraction, the
\* charge fraction of every plant state produced by a step lies within
\* [soc_min, soc_max], whatever the intents and the starting charge fraction.
C2_SocWithinBounds ==
    /\ \A c \in Calls :
        Active(c) =>
            /\ c.next_state.soc # None
            /\ InRange(c.next_state.soc[1], bat[1].soc_min, bat[1].soc_max)
    /\ (k > 0 /\ bat # None /\ RGt(bat[1].e_kwh, Zero) /\ state.soc # None) =>
            InRange(state.soc[1], bat[1].soc_min, bat[1].soc_max)

\* the second step of a run that started above soc_max and asked to charge further
C2_Witness ==
    \E c \in Calls :
        /\ Active(c) /\ k >= 2
        /\ init_soc # None /\ RGt(init_soc[1], bat[1].soc_max)
        /\ RGt(c.ports.p_batt_ch_kw, Zero)
        /\ c.next_state.soc[1] = bat[1].soc_max

\* C3: the indoor temperature of every plant state produced by a step lies
\* within the clip range, for any net thermal power and ambient temperature.
C3_TinWithinClip ==
    /\ \A c \in Calls :
        /\ InRange(c.next_state.Tin_c, th.clip_temp_c[1], th.clip_temp_c[2])
        /\ InRange(c.info.Tin_next_c, th.clip_temp_c[1], th.clip_temp_c[2])
    /\ k > 0 => InRange(state.Tin_c, th.clip_temp_c[1], th.clip_temp_c[2])

\* a step whose unclipped temperature Tin + dT leaves the clip range
C3_Witness ==
    \E c \in Calls :
        /\ ~InRange(RAdd(c.state.Tin_c, c.info.dT), th.clip_temp_c[1], th.clip_temp_c[2])
        /\ c.ports.q_heat_kw # Zero

\* C4 as stated: 0 <= pv_used <= available PV power in every plant step.
C4_PvWithinAvailable ==
    \A c \in Calls : InRange(c.info.pv_used_kw, Zero, c.exog.pv_potential_kw)

\* C4 as amended: 0 <= pv_used <= max(0, available PV power), and pv_used never
\* exceeds the floored bus value.
C4_PvWithinFlooredAvailable ==
    \A c \in Calls :
        /\ InRange(c.info.pv_used_kw, Zero, RMax(Zero, c.exog.pv_potential_kw))
        /\ RLe(c.info.pv_used_kw, RMax(Zero, c.ports.pv_used_kw))

\* a step whose bus asked for more PV power than was available
C4_Witness ==
    \E c \in Calls :
        /\ RGt(c.exog.pv_potential_kw, Zero)
        /\ RGt(c.ports.pv_used_kw, c.exog.pv_potential_kw)
        /\ c.info.pv_used_kw = c.exog.pv_potential_kw

\* C5: with export disabled the reported export power and export energy are
\* exactly zero, also when net demand is negative.
C5_NoExportWhenDisabled ==
    \A c \in Calls :
        ~EffLimits.allow_export =>
            c.info.g_export_kw = Zero /\ c.info.g_export_kwh = Zero

\* a step with export disabled and negative net demand
C5_Witness ==
    \E c \in Calls : ~EffLimits.allow_export /\ RLt(c.info.net_kw, Zero)

\* C6: the reported grid import power and grid export power are both
\* non-negative, for all inputs and all electrical limits.
C6_GridFlowsNonNegative ==
    \A c \in Calls : RGe(c.info.g_import_kw, Zero) /\ RGe(c.info.g_export_kw, Zero)

\* C7: the reported grid import never exceeds the import cap; demand above the
\* cap is clipped, the step still returns its state and the fixed diagnostics
\* record, in which the import is the capped value and only net demand shows
\* the demand above the cap.
InfoFields ==
    {"Tin_next_c", "q_heat_kw", "q_loss_kw", "dT", "p_batt_ch_kw", "p_batt_dis_kw",
     "base_load_kw", "elec_load_kw", "pv_used_kw", "net_kw", "g_import_kw",
     "g_export_kw", "g_import_kwh", "g_export_kwh", "elec_energy_kwh",
     "p_batt_ch_kw_proj", "p_batt_dis_kw_proj", "soc_next"}

C7_ImportCapped ==
    \A c \in Calls :
        /\ RLe(c.info.g_import_kw, EffLimits.gmax_kw)
        /\ RGt(c.info.net_kw, EffLimits.gmax_kw) =>
                /\ c.info.g_import_kw = EffLimits.gmax_kw
                /\ c.info.g_import_kwh = RMul(EffLimits.gmax_kw, th.dt_h)
        /\ DOMAIN c.info = InfoFields
        /\ DOMAIN c.next_state = {"Tin_c", "soc"}

\* a step whose net demand is above a non-negative import cap
C7_Witness ==
    \E c \in Calls :
        /\ RGe(EffLimits.gmax_kw, Zero)
        /\ RGt(c.info.net_kw, EffLimits.gmax_kw)

\* the pure ambient-loss value: indoor + (dt / C) * U * (ambient - indoor)
AmbientLoss(c) ==
    RAdd(c.state.Tin_c,
         RMul(RMul(RDiv(th.dt_h, th.C_th_kwh_per_degC), th.U_kw_per_degC),
              RSub(c.exog.Tout_c, c.state.Tin_c)))

\* C8 as stated: with an all-zero bus and no battery the next indoor
\* temperature is exactly the pure ambient-loss value.
C8_PureAmbientLoss ==
    \A c \in Calls :
        (c.ports = ZeroBus /\ bat = None) => c.next_state.Tin_c = AmbientLoss(c)

\* C8 as amended: with an all-zero bus and no battery the next indoor
\* temperature is the pure ambient-loss value clamped into the clip range, and
\* it is exactly that value whenever the value lies within the clip range.
C8_ClampedAmbientLoss ==
    \A c \in Calls :
        (c.ports = ZeroBus /\ bat = None) =>
            /\ c.next_state.Tin_c =
                 np_clip(AmbientLoss(c), th.clip_temp_c[1], th.clip_temp_c[2])
            /\ InRange(AmbientLoss(c), th.clip_temp_c[1], th.clip_temp_c[2]) =>
                 c.next_state.Tin_c = AmbientLoss(c)

\* an all-zero-bus step without battery that changed the temperature without clipping
C8_Witness ==
    \E c \in Calls :
        /\ c.ports = ZeroBus /\ bat = None
        /\ c.exog.Tout_c # c.state.Tin_c
        /\ c.next_state.Tin_c # c.state.Tin_c
        /\ c.next_state.Tin_c = AmbientLoss(c)

\* C9: in the paired encoding, when both clamped requests are positive only
\* the larger is kept and the other zeroed, and a tie keeps the charge request.
C9_PairedKeepsLargerTieCharge ==
    \A d \in DeviceCalls :
        (d.dev.kind = "battery" /\ d.dev.map_split /\ Len(d.action) = 2) =>
            LET a_ch == Clamp(Zero, One, d.action[1])
                a_dis == Clamp(Zero, One, d.action[2])
                out == d.result.out[1]
            IN  /\ d.result.error = "none"
                /\ (RGt(a_ch, Zero) /\ RGt(a_dis, Zero)) =>
                     IF RGe(a_ch, a_dis)
                     THEN /\ out.p_batt_ch_kw = RMul(a_ch, d.dev.p_ch_max_kw)
                          /\ out.p_batt_dis_kw = Zero
                     ELSE /\ out.p_batt_ch_kw = Zero
                          /\ out.p_batt_dis_kw = RMul(a_dis, d.dev.p_dis_max_kw)

\* C10: in the plant's battery projection, when both clipped intents are
\* positive the smaller is zeroed, and on a tie the charge intent is kept and
\* the discharge intent zeroed; the kept intent stays positive while the charge
\* fraction has room for it.
C10_ProjectionKeepsLargerTieCharge ==
    \A c \in Calls :
        Active(c) =>
            LET p_ch == power_clip(c.ports.p_batt_ch_kw, bat[1].p_ch_max_kw)
                p_dis == power_clip(c.ports.p_batt_dis_kw, bat[1].p_dis_max_kw)
                soc_prev == np_clip(c.state.soc[1], Zero, One)
            IN  (RGt(p_ch, Zero) /\ RGt(p_dis, Zero)) =>
                  IF RGe(p_ch, p_dis)
                  THEN /\ c.info.p_batt_dis_kw = Zero
                       /\ RLe(c.info.p_batt_ch_kw, p_ch)
                       /\ RLt(soc_prev, bat[1].soc_max) => RGt(c.info.p_batt_ch_kw, Zero)
                       /\ RGe(c.next_state.soc[1], RMin(soc_prev, bat[1].soc_max))
                  ELSE /\ c.info.p_batt_ch_kw = Zero
                       /\ RLe(c.info.p_batt_dis_kw, p_dis)
                       /\ RGt(soc_prev, bat[1].soc_min) => RGt(c.info.p_batt_dis_kw, Zero)
                       /\ RLe(c.next_state.soc[1], RMax(soc_prev, bat[1].soc_min))

\* a step whose clipped intents tie and the charge side is the one kept
C10_Witness ==
    \E c \in Calls :
        /\ Active(c)
        /\ RGt(c.ports.p_batt_ch_kw, c.ports.p_batt_dis_kw)
        /\ power_clip(c.ports.p_batt_ch_kw, bat[1].p_ch_max_kw) =
             power_clip(c.ports.p_batt_dis_kw, bat[1].p_dis_max_kw)
        /\ RGt(c.info.p_batt_ch_kw, Zero) /\ c.info.p_batt_dis_kw = Zero

\* the charge-fraction gain of charging at p_kw for one step
ChargeGain(p_kw) ==
    RDiv(RMul(RMul(bat[1].eta_ch, p_kw), th.dt_h), bat[1].e_kwh)
\* the clipped intents of call c after the exclusivity rule
KeptIntents(c) ==
    exclusive(power_clip(c.ports.p_batt_ch_kw, bat[1].p_ch_max_kw),
              power_clip(c.ports.p_batt_dis_kw, bat[1].p_dis_max_kw))
\* a kept charge request that would overshoot soc_max from at or below it
ChargeOvershoots(c) ==
    /\ Active(c)
    /\ InRange(c.state.soc[1], Zero, bat[1].soc_max)
    /\ RGt(KeptIntents(c)[1], Zero)
    /\ RGt(RAdd(c.state.soc[1], ChargeGain(KeptIntents(c)[1])), bat[1].soc_max)

\* C11: when a charge request from a charge fraction at or below soc_max would
\* push the provisional charge fraction above soc_max, the projected charge
\* power is the one at which the charge fraction equals soc_max exactly:
\* prev + eta_ch * p_ch_proj * dt / capacity = soc_max.
C11_ChargeScaledToUpperBound ==
    \A c \in Calls :
        ChargeOvershoots(c) =>
            /\ RAdd(c.state.soc[1], ChargeGain(c.info.p_batt_ch_kw)) = bat[1].soc_max
            /\ c.next_state.soc[1] = bat[1].soc_max
            /\ RLt(c.info.p_batt_ch_kw, KeptIntents(c)[1])
            /\ c.info.p_batt_dis_kw = Zero

\* the spec's scenario: soc 0.88, bound 0.9, 5 kWh, eta 0.95, 2 kW for 1 h
C11_Witness ==
    \E c \in Calls :
        /\ ChargeOvershoots(c)
        /\ c.state.soc[1] = <<22, 25>> /\ bat[1].soc_max = <<9, 10>>
        /\ bat[1].e_kwh = I(5) /\ bat[1].eta_ch = <<19, 20>>
        /\ c.ports.p_batt_ch_kw = I(2) /\ th.dt_h = One
        /\ c.info.p_batt_ch_kw = <<2, 19>>

\* the battery is inert: no battery parameters, or capacity <= 0
Inert == bat = None \/ RLe(bat[1].e_kwh, Zero)
NoIntents(ports) == [ports EXCEPT !.p_batt_ch_kw = Zero, !.p_batt_dis_kw = Zero]

\* C12: with an inert battery both projected powers are zero in every plant
\* step regardless of the intents on the bus, and net demand, import and
\* export are those of the same step with no battery intent on the bus.
C12_InertBatteryZeroPowers ==
    \A c \in Calls :
        Inert =>
            /\ c.info.p_batt_ch_kw = Zero /\ c.info.p_batt_dis_kw = Zero
            /\ c.info.p_batt_ch_kw_proj = Zero /\ c.info.p_batt_dis_kw_proj = Zero
            /\ c.info.net_kw =
                 RSub(RAdd(c.info.base_load_kw, c.info.elec_load_kw), c.info.pv_used_kw)
            /\ c.info = plant_step_multi(c.state, c.exog, NoIntents(c.ports),
                                         th, bat, limits).info

\* a step of a configured battery of zero capacity with an intent on the bus
C12_Witness ==
    \E c \in Calls :
        /\ bat # None /\ Inert
        /\ RGt(c.ports.p_batt_ch_kw, Zero) \/ RGt(c.ports.p_batt_dis_kw, Zero)

\* C13: with an inert battery the charge fraction is absent: after reset and
\* after every step the plant state's charge fraction and the reported soc
\* are None.
C13_InertBatterySocAbsent ==
    Inert =>
        /\ state.soc = None
        /\ \A c \in Calls : c.next_state.soc = None /\ c.info.soc_next = None

\* C17: net demand = base load + device load + projected charge power - PV
\* used - projected discharge power, with the battery powers the step's own
\* projection reports; import and export follow from that net demand.
C17_NetUsesProjectedFlows ==
    \A c \in Calls :
        /\ c.info.net_kw =
             RSub(RSub(RAdd(RAdd(c.info.base_load_kw, c.info.elec_load_kw),
                            c.info.p_batt_ch_kw), c.info.pv_used_kw),
                  c.info.p_batt_dis_kw)
        /\ c.info.g_import_kw = RMin(RMax(Zero, c.info.net_kw), EffLimits.gmax_kw)
        /\ c.info.g_export_kw =
             IF EffLimits.allow_export THEN RMax(Zero, RNeg(c.info.net_kw)) ELSE Zero
        /\ Active(c) =>
             /\ RLe(c.info.p_batt_ch_kw, KeptIntents(c)[1])
             /\ RLe(c.info.p_batt_dis_kw, KeptIntents(c)[2])

\* the net demand computed from the raw bus intents
RawNet(c) ==
    RSub(RSub(RAdd(RAdd(c.info.base_load_kw, c.info.elec_load_kw),
                   c.ports.p_batt_ch_kw), c.info.pv_used_kw), c.ports.p_batt_dis_kw)

\* a step whose projection reduced an intent, so that net demand is not the raw one
C17_Witness ==
    \E c \in Calls :
        /\ Active(c)
        /\ RLt(c.info.p_batt_ch_kw, c.ports.p_batt_ch_kw)
        /\ RGt(c.info.p_batt_ch_kw, Zero)
        /\ c.info.net_kw # RawNet(c)

\* C16: a plant step does not mutate the plant state passed in and returns a
\* new instance: after the call the input instance still has the indoor
\* temperature and charge fraction it was called with, and the returned
\* state is another object, which holds the next state.
C16_InputStateNotMutated ==
    \A c \in Calls :
        /\ c.heap[c.state_ref] = c.state
        /\ c.next_ref # c.state_ref
        /\ c.heap[c.next_ref] = c.next_state

\* a step that changes both the indoor temperature and the charge fraction
C16_Witness ==
    \E c \in Calls :
        /\ Active(c)
        /\ c.next_state.Tin_c # c.state.Tin_c
        /\ c.next_state.soc # c.state.soc

\* C14: heat pump forward called without an ambient temperature fails with an
\* error for every action value, in range or not, and returns no contributions.
C14_HeatPumpRequiresAmbient ==
    \A d \in DeviceCalls :
        (d.dev.kind = "bidir_hp" /\ d.t_out_c = None) =>
            d.result.error = "ValueError" /\ d.result.out = None

\* heat pump calls without ambient temperature at action 0 and at an out-of-range action
C14_Witness ==
    \E d \in DeviceCalls :
        /\ d.dev.kind = "bidir_hp" /\ d.t_out_c = None
        /\ d.action \in { <<Zero>>, <<I(-2)>>, <<(<<3, 2>>)>> }
        /\ d.result.error = "ValueError"

\* C19: resistive heater forward, for any action a: the call returns (out-of-
\* range actions are clamped to [0,1], never rejected), electrical load = max
\* power * clamp(a), thermal output = efficiency * electrical load and is
\* never negative, electrical energy = electrical load * step duration.
C19_ResistiveForward ==
    \A d \in DeviceCalls :
        d.dev.kind = "resistive" =>
            /\ d.result.error = "none"
            /\ LET o == d.result.out[1]
                   a == RMax(Zero, RMin(One, d.action[1]))
               IN  /\ o.elec_load_kw = RMul(d.dev.pmax_kw, a)
                   /\ o.q_heat_kw = RMul(d.dev.eff, o.elec_load_kw)
                   /\ RGe(o.q_heat_kw, Zero)
                   /\ o.elec_energy_kwh = RMul(o.elec_load_kw, d.dt_h)

\* the scenario: max power 3, efficiency 1.0, action 0.5, duration 0.25
C19_Witness ==
    \E d \in DeviceCalls :
        /\ d.dev.kind = "resistive" /\ d.dev.pmax_kw = I(3) /\ d.dev.eff = One
        /\ d.action = << <<1, 2>> >> /\ d.dt_h = <<1, 4>>
        /\ d.result.out[1].elec_load_kw = <<3, 2>>
        /\ d.result.out[1].q_heat_kw = <<3, 2>>
        /\ d.result.out[1].elec_energy_kwh = <<3, 8>>

\* the clamped, signed action of a heat pump call, as the claim states it
SignedAction(d) ==
    IF d.dev.accept_unsigned_action
    THEN RSub(RMul(I(2), RMax(Zero, RMin(One, d.action[1]))), One)
    ELSE RMax(I(-1), RMin(One, d.action[1]))
Sign(u) == IF RGt(u, Zero) THEN One ELSE IF RLt(u, Zero) THEN I(-1) ELSE Zero

\* C20: heat pump forward with an ambient temperature, for any action a with
\* u = clamp(a, -1, 1) (or 2 * clamp(a, 0, 1) - 1 for unsigned input):
\* electrical load = max power * |u|, thermal output = sign(u) * efficiency *
\* electrical load, and mode is heat when u > 0, cool when u < 0, idle when
\* u = 0.
C20_HeatPumpForward ==
    \A d \in DeviceCalls :
        (d.dev.kind = "bidir_hp" /\ d.t_out_c # None) =>
            /\ d.result.error = "none"
            /\ LET o == d.result.out[1]
                   u == SignedAction(d)
               IN  /\ o.elec_load_kw = RMul(d.dev.pmax_kw, IF RLt(u, Zero) THEN RNeg(u) ELSE u)
                   /\ o.q_heat_kw = RMul(Sign(u), RMul(o.cop, o.elec_load_kw))
                   /\ o.mode = (IF RGt(u, Zero) THEN "heat"
                                ELSE IF RLt(u, Zero) THEN "cool" ELSE "idle")

\* the scenario: max power 2, reference efficiency 3.0 at 7 degC, slope 0.05,
\* action -1, ambient 7 degC, duration 1 h
C20_Witness ==
    \E d \in DeviceCalls :
        /\ d.dev.kind = "bidir_hp" /\ d.dev.cop_fn = None
        /\ d.dev.cop_slope_per_degC = <<1, 20>> /\ ~d.dev.accept_unsigned_action
        /\ d.action = <<I(-1)>> /\ d.t_out_c = Some(I(7)) /\ d.dt_h = One
        /\ d.result.out[1].cop = I(3)
        /\ d.result.out[1].elec_load_kw = I(2)
        /\ d.result.out[1].q_heat_kw = I(-6)
        /\ d.result.out[1].mode = "cool"

\* the kind of entry sp of a configuration list is registered
Known(sp) == lower(sp.kind) \in REGISTRY

\* C15: constructing a device whose kind is not one of the registered names
\* (resistive, bidir_hp, battery, pv) fails with an error, and make_devices
\* returns no device list, not even a partial one, when any entry of the
\* configuration list has an unknown kind; a list of registered kinds yields
\* one device per entry, in order.
C15_UnknownKindFails ==
    \A c \in FactoryCalls :
        /\ \A i \in DOMAIN c.specs :
             ~Known(c.specs[i]) =>
                make_device(c.specs[i]).error = "ValueError"
                /\ make_device(c.specs[i]).out = None
        /\ (\E i \in DOMAIN c.specs : ~Known(c.specs[i])) =>
             c.made.error = "ValueError" /\ c.made.out = None /\ c.space = None
        /\ (\A i \in DOMAIN c.specs : Known(c.specs[i])) =>
             /\ c.made.error = "none"
             /\ Len(c.made.out[1]) = Len(c.specs)
             /\ \A i \in DOMAIN c.specs : c.made.out[1][i].kind = lower(c.specs[i].kind)

\* a list whose first entry is registered and whose second entry is not
C15_Witness ==
    \E c \in FactoryCalls :
        /\ Len(c.specs) = 2
        /\ Known(c.specs[1]) /\ ~Known(c.specs[2])
        /\ c.made.error = "ValueError"

\* the action range a device's own forward clamps to, per value of its action
Convention(dev) ==
    IF dev.kind = "battery"
    THEN IF dev.map_split THEN << <<Zero, Zero>>, <<One, One>> >>
                          ELSE << <<I(-1)>>, <<One>> >>
    ELSE IF dev.kind = "bidir_hp" /\ ~dev.accept_unsigned_action
    THEN << <<I(-1)>>, <<One>> >>
    ELSE << <<Zero>>, <<One>> >>

\* C18: the action composer gives each device the dimensionality and bounds
\* of the device's own action convention (signed heat pump [-1,1], paired
\* battery two values in [0,1], signed-mode battery [-1,1], every other
\* device [0,1]), and the per-device slices are contiguous, disjoint and in
\* device order.
C18_ActionSpaceFollowsConventions ==
    \A c \in FactoryCalls :
        c.space # None =>
            LET sp == c.space[1]
                devs == c.made.out[1]
            IN  /\ Len(sp.slices) = Len(devs)
                /\ \A i \in DOMAIN devs :
                     /\ sp.slices[i][1] = (IF i = 1 THEN 0 ELSE sp.slices[i - 1][2])
                     /\ sp.slices[i][2] = sp.slices[i][1] + Len(Convention(devs[i])[1])
                     /\ \A j \in 1..Len(Convention(devs[i])[1]) :
                          /\ sp.lows[sp.slices[i][1] + j] = Convention(devs[i])[1][j]
                          /\ sp.highs[sp.slices[i][1] + j] = Convention(devs[i])[2][j]
                /\ Len(sp.lows) = sp.cursor /\ Len(sp.highs) = sp.cursor

\* the charge-fraction loss of discharging at p_kw for one step
DischargeLoss(p_kw) ==
    RDiv(RMul(p_kw, th.dt_h), RMul(bat[1].eta_dis, bat[1].e_kwh))
\* a kept discharge request that would undershoot soc_min from at or above it
DischargeUndershoots(c) ==
    /\ Active(c)
    /\ InRange(c.state.soc[1], bat[1].soc_min, One)
    /\ RGt(KeptIntents(c)[2], Zero)
    /\ RLt(RSub(c.state.soc[1], DischargeLoss(KeptIntents(c)[2])), bat[1].soc_min)

\* C22: when a discharge request from a charge fraction at or above soc_min
\* would push the provisional charge fraction below soc_min, the projected
\* discharge power is the one at which the charge fraction equals soc_min
\* exactly: prev - p_dis_proj * dt / (eta_dis * capacity) = soc_min.
C22_DischargeScaledToLowerBound ==
    \A c \in Calls :
        DischargeUndershoots(c) =>
            /\ RSub(c.state.soc[1], DischargeLoss(c.info.p_batt_dis_kw)) = bat[1].soc_min
            /\ c.next_state.soc[1] = bat[1].soc_min
            /\ RLt(c.info.p_batt_dis_kw, KeptIntents(c)[2])
            /\ c.info.p_batt_ch_kw = Zero

\* a 2 kW discharge for 1 h from 0.5 of a 5 kWh battery with soc_min 0.1
C22_Witness ==
    \E c \in Calls :
        /\ DischargeUndershoots(c)
        /\ c.state.soc[1] = <<1, 2>> /\ bat[1].e_kwh = I(5)
        /\ c.ports.p_batt_dis_kw = I(2) /\ th.dt_h = One
        /\ c.info.p_batt_dis_kw = <<19, 10>>

\* C23: in every plant step the projected charge power lies in [0, charge
\* power limit], the projected discharge power lies in [0, discharge power
\* limit], and neither exceeds max(0, its requested intent).
C23_ProjectionOnlyReduces ==
    \A c \in Calls :
        /\ RGe(c.info.p_batt_ch_kw, Zero) /\ RGe(c.info.p_batt_dis_kw, Zero)
        /\ RLe(c.info.p_batt_ch_kw, RMax(Zero, c.ports.p_batt_ch_kw))
        /\ RLe(c.info.p_batt_dis_kw, RMax(Zero, c.ports.p_batt_dis_kw))
        /\ bat # None =>
             /\ RLe(c.info.p_batt_ch_kw, bat[1].p_ch_max_kw)
             /\ RLe(c.info.p_batt_dis_kw, bat[1].p_dis_max_kw)

\* a step whose charge intent is above the charge power limit and is kept
C23_Witness ==
    \E c \in Calls :
        /\ Active(c)
        /\ RGt(c.ports.p_batt_ch_kw, bat[1].p_ch_max_kw)
        /\ RGt(c.info.p_batt_ch_kw, Zero)

\* C24: the charge fraction returned by a plant step is the energy balance of
\* the projected powers of the same step: soc_next = soc_prev + eta_ch *
\* p_ch_proj * dt / capacity - p_dis_proj * dt / (eta_dis * capacity), for
\* every reachable charge fraction including the one set at reset.
C24_SocEnergyConsistent ==
    \A c \in Calls :
        Active(c) =>
            c.next_state.soc[1] =
                RSub(RAdd(c.state.soc[1], ChargeGain(c.info.p_batt_ch_kw)),
                     DischargeLoss(c.info.p_batt_dis_kw))

\* C25: with export allowed, export = max(0, -net demand) and import is
\* max(0, net demand) before capping, so grid import and grid export are
\* never both strictly positive, and when the cap is not binding
\* import - export = net demand.
C25_ImportExportExclusive ==
    \A c \in Calls :
        EffLimits.allow_export =>
            /\ c.info.g_export_kw = RMax(Zero, RNeg(c.info.net_kw))
            /\ ~(RGt(c.info.g_import_kw, Zero) /\ RGt(c.info.g_export_kw, Zero))
            /\ RLe(RMax(Zero, c.info.net_kw), EffLimits.gmax_kw) =>
                 /\ c.info.g_import_kw = RMax(Zero, c.info.net_kw)
                 /\ RSub(c.info.g_import_kw, c.info.g_export_kw) = c.info.net_kw

\* steps with export allowed and an unbinding cap: one importing, one exporting
C25_Witness ==
    \E c \in Calls :
        /\ EffLimits.allow_export
        /\ RLe(RMax(Zero, c.info.net_kw), EffLimits.gmax_kw)
        /\ c.info.net_kw # Zero
        /\ RSub(c.info.g_import_kw, c.info.g_export_kw) = c.info.net_kw

FlooredAvailable(d) ==
    IF d.pv_potential_kw = None THEN Zero ELSE RMax(Zero, d.pv_potential_kw[1])

\* C26: PV inverter forward, for any action and any available PV power,
\* negative or absent included: the PV power used is never negative, never
\* exceeds max(0, available PV power), and equals clamp(action, 0, 1) *
\* max(0, available PV power).
C26_PvForward ==
    \A d \in DeviceCalls :
        d.dev.kind = "pv" =>
            /\ d.result.error = "none"
            /\ RGe(d.result.out[1].pv_used_kw, Zero)
            /\ RLe(d.result.out[1].pv_used_kw, FlooredAvailable(d))
            /\ d.result.out[1].pv_used_kw =
                 RMul(RMax(Zero, RMin(One, d.action[1])), FlooredAvailable(d))

\* a PV call with a negative available power and a positive action
C26_Witness ==
    \E d \in DeviceCalls :
        /\ d.dev.kind = "pv"
        /\ d.pv_potential_kw = Some(I(-1))
        /\ RGt(d.action[1], Zero)
        /\ d.result.out[1].pv_used_kw = Zero

\* a heat pump call that returned contributions
HeatPumpReturned(d) == d.dev.kind = "bidir_hp" /\ d.result.error = "none"
\* cop_ref + slope * (ambient - t_ref)
AffineCop(d) ==
    RAdd(d.dev.cop_ref,
         RMul(d.dev.cop_slope_per_degC, RSub(d.t_out_c[1], d.dev.t_ref_c)))

\* C27: the efficiency the heat pump uses and reports lies within the
\* configured [cop_min, cop_max] band for every ambient temperature, and with
\* no injected lookup it equals clamp(cop_ref + slope * (ambient - t_ref),
\* cop_min, cop_max).
C27_CopWithinBand ==
    \A d \in DeviceCalls :
        HeatPumpReturned(d) =>
            /\ InRange(d.result.out[1].cop, d.dev.cop_min, d.dev.cop_max)
            /\ d.dev.cop_fn = None =>
                 d.result.out[1].cop =
                    RMax(d.dev.cop_min, RMin(d.dev.cop_max, AffineCop(d)))

\* C27, amended: with no injected lookup the efficiency equals clamp(cop_ref +
\* slope * (ambient - t_ref), cop_min, cop_max) and so lies within the band;
\* with an injected lookup it is the lookup's value floored at 0.1, which the
\* band does not confine.
C27_AffineCopWithinBand ==
    \A d \in DeviceCalls :
        HeatPumpReturned(d) =>
            /\ d.dev.cop_fn = None =>
                 /\ d.result.out[1].cop =
                      RMax(d.dev.cop_min, RMin(d.dev.cop_max, AffineCop(d)))
                 /\ InRange(d.result.out[1].cop, d.dev.cop_min, d.dev.cop_max)
            /\ d.dev.cop_fn # None =>
                 /\ RGe(d.result.out[1].cop, <<1, 10>>)
                 /\ d.result.out[1].cop =
                      RMax(<<1, 10>>, _interp1d(d.dev.cop_fn[1], d.t_out_c[1]))
            /\ d.result.out[1].q_heat_kw =
                 RMul(heat_sign(hp_u(d.dev, d.action[1])),
                      RMul(d.result.out[1].cop, d.result.out[1].elec_load_kw))

\* an affine efficiency above the band, held at cop_max
C27_Witness ==
    \E d \in DeviceCalls :
        /\ HeatPumpReturned(d) /\ d.dev.cop_fn = None
        /\ RGt(AffineCop(d), d.dev.cop_max)
        /\ d.result.out[1].cop = d.dev.cop_max

\* C28: the plant step handles zero denominators without raising: for a
\* thermal capacitance of zero and for a battery capacity or discharge
\* efficiency of zero, plant_step_multi returns a next state and diagnostics
\* instead of failing with a division error.
C28_NoDivisionError ==
    \A c \in Calls :
        (\/ th.C_th_kwh_per_degC = Zero
         \/ bat # None /\ (bat[1].e_kwh = Zero \/ bat[1].eta_dis = Zero)) =>
            /\ c.result.error = "none"
            /\ c.result.out # None

\* what the last reset or step of the environment returned
EnvReturned(op) == ep.ret # None /\ ep.ret[1].op = op /\ ep.ret[1].error = "none"

\* C29: in ThermalPlantEnv the step index is 0 after reset and increases by
\* exactly one per step; truncated is false on each of the first T-1 steps of
\* an episode and true on the T-th, terminated is never true, and every step
\* made while the index is below T returns and reads the exogenous series at
\* an index within the series.
C29_EpisodeIndex ==
    /\ k \in 0..ep.T
    /\ EnvReturned("reset") => k = 0
    /\ EnvReturned("step") =>
         /\ k = ep.ret[1].t + 1
         /\ ep.ret[1].t \in 0..(ep.T - 1)
         /\ ep.ret[1].truncated = (k = ep.T)
         /\ ~ep.ret[1].terminated
         /\ ep.ret[1].obs_index \in 0..(ep.T - 1)
         /\ last[1].exog.Tout_c = t_out(ep.T)[ep.ret[1].t + 1]
    /\ (ep.ret # None /\ ep.ret[1].error # "none") => k = ep.T

\* the T-th step of an episode of three steps
C29_Witness ==
    /\ ep.T = 3 /\ k = 3
    /\ EnvReturned("step")
    /\ ep.ret[1].truncated /\ ep.ret[1].t = 2

\* what the last reset or step of the engine returned
EngineReturned(op) == eng.ret # None /\ eng.ret[1].op = op /\ eng.ret[1].error = "none"

\* C30: after any sequence of Engine.reset and Engine.step calls the step
\* index is within [0, T-1], no step reads past the end of the exogenous
\* series, every step made at index T-1 reports truncated = true, and reset
\* returns the index to 0, the indoor temperature to its initial value and
\* the cumulative totals to zero.
C30_EngineIndexWithinSeries ==
    /\ eng.k \in 0..(eng.T - 1)
    /\ eng.ret # None => eng.ret[1].error = "none"
    /\ EngineReturned("step") =>
         /\ eng.ret[1].k_read \in 0..(eng.T - 1)
         /\ eng.ret[1].t = eng.k
         /\ eng.ret[1].k_read = eng.T - 1 => (eng.ret[1].truncated /\ eng.k = eng.T - 1)
         /\ eng.ret[1].truncated => eng.ret[1].k_read = eng.T - 1
    /\ EngineReturned("reset") =>
         /\ eng.k = 0 /\ eng.Tin_c = T_in0_c
         /\ eng.cum_energy_cost_eur = Zero
         /\ eng.cum_comfort_penalty_eur = Zero
         /\ eng.cum_reward = Zero

\* a step made after the index had reached T-1, the totals being non-zero
C30_Witness ==
    /\ eng.T = 3 /\ eng.n = 4 /\ eng.k = 2
    /\ EngineReturned("step")
    /\ eng.ret[1].k_read = 2 /\ eng.ret[1].truncated
    /\ eng.cum_reward # Zero

====
